---- MODULE Spec2Model ----
(***************************************************************************)
(* Model of alert_system.py: the two boundary estimators (check_anomaly,  *)
(* check_anomaly_ctr) and the Airflow task get_alert that applies them to  *)
(* every metric of metrics_list and notifies the Telegram channel.         *)
(*                                                                         *)
(* Numbers.  Metric values are integers (the counts of the query; the ctr  *)
(* column round(likes/views, 2) is held in hundredths, so 0.19 is 19).     *)
(* A pandas float is a rational [num, den] with den > 0; den = 0 is NaN.   *)
(* Arithmetic is exact: the rounding of IEEE doubles is not modelled.      *)
(***************************************************************************)
EXTENDS Integers, Sequences, FiniteSets, TLC

VARIABLES
    \* ---- one run of the task get_alert ----
    pc,          \* position of the task: "off", "fetch", "loop", "compose", "render",
                 \* "sendMessage", "sendPhoto", "success", "failed"
    attempt,     \* try number of the task instance (1 .. retries + 1)
    data,        \* the frame read from the base: metric -> column of values
    idx,         \* position of the for loop in metrics_list
    is_alert,    \* the flag returned by the estimator for the current metric
    msg,         \* the alert text being sent
    calls,       \* calls made on the bot in this try, in order
    evaluated,   \* the metrics whose estimator returned in this try, with the flag
    err,         \* the exception that ended the try ("none" while there is none)
    \* ---- one call of an estimator ----
    est_pc,      \* "off", "call", "returned", "raised"
    strategy,    \* "adaptive" (check_anomaly) or "fixed" (check_anomaly_ctr)
    series,      \* df[metric]
    a_arg,       \* a
    n_arg,       \* n
    est_alert,   \* the returned flag
    low,         \* the returned df['low']
    up           \* the returned df['up']

run_vars == <<pc, attempt, data, idx, is_alert, msg, calls, evaluated, err>>
est_vars == <<est_pc, strategy, series, a_arg, n_arg, est_alert, low, up>>
vars == <<pc, attempt, data, idx, is_alert, msg, calls, evaluated, err,
          est_pc, strategy, series, a_arg, n_arg, est_alert, low, up>>

(***************************************************************************)
(* Bounds of the model and constants of the program.                       *)
(***************************************************************************)
MaxLen == 5          \* longest series over AdaptiveVals handed to check_anomaly
MaxCtrLen == 3       \* longest series handed to check_anomaly_ctr
MaxRows == 7         \* most rows the fetch returns

DefaultA == 3        \* check_anomaly(df, metric, a=3, n=5)
DefaultN == 5
CtrUp == 23          \* df['up'] = 0.23, in hundredths
CtrLow == 19         \* df['low'] = 0.19, in hundredths
retries == 2         \* default_args['retries']

\* the inputs tried
AdaptiveVals == {0, 1, 3}
TwoVals == {0, 3}
CtrVals == {18, 19, 21, 23, 25}
Spreads == {1, DefaultA}
Windows == 1..DefaultN
Scenario == <<10, 12, 11, 13, 90, 91>>

(***************************************************************************)
(* Floats.                                                                 *)
(***************************************************************************)
NaN == [num |-> 0, den |-> 0]
Num(v) == [num |-> v, den |-> 1]
IsNaN(x) == x.den = 0

\* x < y on floats: False as soon as one side is NaN
Lt(x, y) == ~IsNaN(x) /\ ~IsNaN(y) /\ x.num * y.den < y.num * x.den

Le(x, y) == ~IsNaN(x) /\ ~IsNaN(y) /\ x.num * y.den <= y.num * x.den

Add(x, y) ==
    IF IsNaN(x) \/ IsNaN(y) THEN NaN
    ELSE IF x.den = y.den THEN [num |-> x.num + y.num, den |-> x.den]
    ELSE [num |-> x.num * y.den + y.num * x.den, den |-> x.den * y.den]

Sub(x, y) ==
    IF IsNaN(x) \/ IsNaN(y) THEN NaN
    ELSE IF x.den = y.den THEN [num |-> x.num - y.num, den |-> x.den]
    ELSE [num |-> x.num * y.den - y.num * x.den, den |-> x.den * y.den]

Mul(k, x) == IF IsNaN(x) THEN NaN ELSE [num |-> k * x.num, den |-> x.den]

NotNaN(x) == ~IsNaN(x)
NumLess(x, y) == x.num < y.num

RECURSIVE SumNum(_)
SumNum(w) == IF w = <<>> THEN 0 ELSE Head(w).num + SumNum(Tail(w))

Max(i, j) == IF i >= j THEN i ELSE j
Min(i, j) == IF i <= j THEN i ELSE j

(***************************************************************************)
(* The pandas operations check_anomaly uses.                               *)
(***************************************************************************)
\* df[metric] as a float column
Column(s) == [i \in 1..Len(s) |-> Num(s[i])]

\* Series.shift(1): every value moves one place down, the first place is NaN
shift_none(x) == x
shift(x) == [i \in 1..Len(x) |-> IF i = 1 THEN NaN ELSE x[i - 1]]

\* the quantile k/4 of the observations obs (integers), interpolation 'linear':
\* vlow + (vhigh - vlow) * (idx_with_fraction - idx), idx_with_fraction = q * (nobs - 1)
quantile_mirrored(obs, k) ==
    LET sorted == SortSeq(obs, NumLess)
        pos4 == (4 - k) * (Len(obs) - 1)
        lo == pos4 \div 4
        r == pos4 % 4
        vlow == sorted[lo + 1].num
        vhigh == IF r = 0 THEN vlow ELSE sorted[lo + 2].num
    IN [num |-> 4 * vlow + (vhigh - vlow) * r, den |-> 4]
quantile(obs, k) ==
    LET sorted == SortSeq(obs, NumLess)
        pos4 == k * (Len(obs) - 1)
        lo == pos4 \div 4
        r == pos4 % 4
        vlow == sorted[lo + 1].num
        vhigh == IF r = 0 THEN vlow ELSE sorted[lo + 2].num
    IN [num |-> 4 * vlow + (vhigh - vlow) * r, den |-> 4]

\* Series.rolling(n).quantile(k/4): the window of i is i - n + 1 .. i, min_periods is n
rolling_quantile_min1(x, n, k) ==
    [i \in 1..Len(x) |->
        LET obs == SelectSeq(SubSeq(x, Max(1, i - n + 1), i), NotNaN)
        IN IF Len(obs) < 1 THEN NaN ELSE quantile(obs, k)]
rolling_quantile(x, n, k) ==
    [i \in 1..Len(x) |->
        LET obs == SelectSeq(SubSeq(x, Max(1, i - n + 1), i), NotNaN)
        IN IF Len(obs) < n THEN NaN ELSE quantile(obs, k)]

\* Series.rolling(n, center=True, min_periods=1).mean() of a column of quarters:
\* the window of i is i + offset - n + 1 .. i + offset with offset = (n - 1) // 2,
\* cut at both ends of the column
rolling_mean_strict(x, n) ==
    [i \in 1..Len(x) |->
        LET offset == (n - 1) \div 2
            obs == SelectSeq(SubSeq(x, Max(1, i + offset - n + 1),
                                       Min(Len(x), i + offset)), NotNaN)
        IN IF Len(obs) < n THEN NaN
           ELSE [num |-> SumNum(obs), den |-> 4 * Len(obs)]]
rolling_mean(x, n) ==
    [i \in 1..Len(x) |->
        LET offset == (n - 1) \div 2
            obs == SelectSeq(SubSeq(x, Max(1, i + offset - n + 1),
                                       Min(Len(x), i + offset)), NotNaN)
        IN IF Len(obs) < 1 THEN NaN
           ELSE [num |-> SumNum(obs), den |-> 4 * Len(obs)]]

\* the if of both estimators: metric.iloc[-1] < low.iloc[-1] or metric.iloc[-1] > up.iloc[-1]
verdict_nonstrict(s, lo, hi) ==
    LET last == Num(s[Len(s)])
    IN IF Le(last, lo[Len(s)]) \/ Le(hi[Len(s)], last) THEN 1 ELSE 0
verdict(s, lo, hi) ==
    LET last == Num(s[Len(s)])
    IN IF Lt(last, lo[Len(s)]) \/ Lt(hi[Len(s)], last) THEN 1 ELSE 0

\* check_anomaly(df, metric, a, n) on a series that is not empty
check_anomaly(s, a, n) ==
    LET x == shift(Column(s))
        q25 == rolling_quantile(x, n, 1)
        q75 == rolling_quantile(x, n, 3)
        iqr == [i \in 1..Len(s) |-> Sub(q75[i], q25[i])]
        up_raw == [i \in 1..Len(s) |-> Add(q75[i], Mul(a, iqr[i]))]
        low_raw == [i \in 1..Len(s) |-> Sub(q25[i], Mul(a, iqr[i]))]
        hi == rolling_mean(up_raw, n)
        lo == rolling_mean(low_raw, n)
    IN [is_alert |-> verdict(s, lo, hi), low |-> lo, up |-> hi]

\* check_anomaly_ctr(df, metric) on a series that is not empty
check_anomaly_ctr_hist(s) ==
    LET hi == [i \in 1..Len(s) |-> Num(CtrUp)]
        lo == [i \in 1..Len(s) |-> Num(s[1])]
    IN [is_alert |-> verdict(s, lo, hi), low |-> lo, up |-> hi]
check_anomaly_ctr(s) ==
    LET hi == [i \in 1..Len(s) |-> Num(CtrUp)]
        lo == [i \in 1..Len(s) |-> Num(CtrLow)]
    IN [is_alert |-> verdict(s, lo, hi), low |-> lo, up |-> hi]

\* df[metric].iloc[-k] raises IndexError on a series of fewer than k values
iloc_raises(s, k) == Len(s) < k

(***************************************************************************)
(* One call of an estimator on a series of its own.                        *)
(***************************************************************************)
SeqsUpTo(S, k) == UNION {[1..m -> S] : m \in 0..k}

RunOff ==
    /\ pc = "off" /\ attempt = 0 /\ data = <<>> /\ idx = 0 /\ is_alert = 0
    /\ msg = <<>> /\ calls = <<>> /\ evaluated = <<>> /\ err = "none"

InitEst ==
    /\ RunOff
    /\ est_pc = "call"
    /\ est_alert = 0 /\ low = <<>> /\ up = <<>>
    /\ \/ /\ strategy = "adaptive"
          /\ series \in SeqsUpTo(AdaptiveVals, MaxLen)
          /\ a_arg \in Spreads
          /\ n_arg \in Windows
       \/ /\ strategy = "adaptive"
          /\ series \in SeqsUpTo(TwoVals, MaxLen + 3)
          /\ a_arg = DefaultA
          /\ n_arg \in Windows
       \/ /\ strategy = "adaptive"
          /\ series = Scenario
          /\ a_arg = DefaultA
          /\ n_arg = DefaultN
       \/ /\ strategy = "fixed"
          /\ series \in SeqsUpTo(CtrVals, MaxCtrLen)
          /\ a_arg = 0
          /\ n_arg = 0

CheckAnomaly ==
    /\ est_pc = "call" /\ strategy = "adaptive"
    /\ ~iloc_raises(series, 1)
    /\ LET r == check_anomaly(series, a_arg, n_arg)
       IN /\ est_alert' = r.is_alert
          /\ low' = r.low
          /\ up' = r.up
    /\ est_pc' = "returned"
    /\ UNCHANGED <<strategy, series, a_arg, n_arg>>
    /\ UNCHANGED run_vars

CheckAnomalyCtr ==
    /\ est_pc = "call" /\ strategy = "fixed"
    /\ ~iloc_raises(series, 1)
    /\ LET r == check_anomaly_ctr(series)
       IN /\ est_alert' = r.is_alert
          /\ low' = r.low
          /\ up' = r.up
    /\ est_pc' = "returned"
    /\ UNCHANGED <<strategy, series, a_arg, n_arg>>
    /\ UNCHANGED run_vars

\* the if of either estimator reads iloc[-1] of an empty series: IndexError
EstimatorRaises ==
    /\ est_pc = "call"
    /\ iloc_raises(series, 1)
    /\ est_pc' = "raised"
    /\ UNCHANGED <<strategy, series, a_arg, n_arg, est_alert, low, up>>
    /\ UNCHANGED run_vars

NextEst == CheckAnomaly \/ CheckAnomalyCtr \/ EstimatorRaises

SpecEst == InitEst /\ [][NextEst]_vars

(***************************************************************************)
(* The task get_alert.                                                     *)
(***************************************************************************)
metrics_list == <<"users_feed", "views", "likes", "ctr", "users_message", "messages">>
Metrics == {metrics_list[k] : k \in 1..Len(metrics_list)}

\* the frames ph.read_clickhouse may return: every column has the same number of
\* rows; a column is a history around 21 followed by the latest value
Columns(metric, rows) ==
    {[i \in 1..rows |-> IF i = rows THEN last ELSE 20 + (i % 3)] :
        last \in IF metric = "ctr" THEN {21, 23, 25} ELSE {21, 90}}
AllColumns(rows) == UNION {Columns(m, rows) : m \in Metrics}
FramesOf(rows) ==
    {f \in [Metrics -> AllColumns(rows)] : \A m \in Metrics : f[m] \in Columns(m, rows)}
Frames == UNION {FramesOf(rows) : rows \in 0..MaxRows}
NoFrame == [m \in Metrics |-> <<>>]
NoMsg == [metric |-> "", current |-> 0, previous |-> 0]

EstOff ==
    /\ est_pc = "off" /\ strategy = "none" /\ series = <<>> /\ a_arg = 0 /\ n_arg = 0
    /\ est_alert = 0 /\ low = <<>> /\ up = <<>>

Init ==
    /\ EstOff
    /\ pc = "fetch" /\ attempt = 1
    /\ data = NoFrame /\ idx = 0 /\ is_alert = 0 /\ msg = NoMsg
    /\ calls = <<>> /\ evaluated = <<>> /\ err = "none"

\* an exception leaves the task: the try has failed
Raise(e) ==
    /\ pc' = "failed"
    /\ err' = e

\* data = ph.read_clickhouse(query=query, connection=connection)
Fetch ==
    /\ pc = "fetch"
    /\ data' \in Frames
    /\ pc' = "loop"
    /\ idx' = 1
    /\ UNCHANGED <<attempt, is_alert, msg, calls, evaluated, err>>
    /\ UNCHANGED est_vars

FetchSwallowed ==
    /\ pc = "fetch"
    /\ pc' = "success"
    /\ UNCHANGED <<attempt, data, idx, is_alert, msg, calls, evaluated, err>>
    /\ UNCHANGED est_vars
FetchRaises ==
    /\ pc = "fetch"
    /\ Raise("DataUnavailable")
    /\ UNCHANGED <<attempt, data, idx, is_alert, msg, calls, evaluated>>
    /\ UNCHANGED est_vars

\* if metric == 'ctr': check_anomaly_ctr(df, metric) else: check_anomaly(df, metric)
estimate(metric, df) ==
    IF metric = "ctr" THEN check_anomaly_ctr(df)
    ELSE check_anomaly(df, DefaultA, DefaultN)

\* one pass of the for loop up to the test of is_alert
Evaluate ==
    /\ pc = "loop" /\ idx <= Len(metrics_list)
    /\ LET metric == metrics_list[idx]
           df == data[metric]
       IN /\ ~iloc_raises(df, 1)
          /\ LET r == estimate(metric, df)
             IN /\ is_alert' = r.is_alert
                /\ evaluated' = Append(evaluated, [metric |-> metric, is_alert |-> r.is_alert])
                /\ IF r.is_alert = 1
                   THEN pc' = "compose" /\ idx' = idx
                   ELSE pc' = "loop" /\ idx' = idx + 1
    /\ UNCHANGED <<attempt, data, msg, calls, err>>
    /\ UNCHANGED est_vars

\* the estimator reads df[metric].iloc[-1] of a frame without rows
EvaluateRaises ==
    /\ pc = "loop" /\ idx <= Len(metrics_list)
    /\ iloc_raises(data[metrics_list[idx]], 1)
    /\ Raise("IndexError")
    /\ UNCHANGED <<attempt, data, idx, is_alert, msg, calls, evaluated>>
    /\ UNCHANGED est_vars

\* the for loop has passed the last metric: the task returns
LoopEnd ==
    /\ pc = "loop" /\ idx > Len(metrics_list)
    /\ pc' = "success"
    /\ UNCHANGED <<attempt, data, idx, is_alert, msg, calls, evaluated, err>>
    /\ UNCHANGED est_vars

\* msg = f'...{df[metric].iloc[-1]:.2f} ... {1-df[metric].iloc[-1]/df[metric].iloc[-2]:.2%} ...'
Compose ==
    /\ pc = "compose"
    /\ LET metric == metrics_list[idx]
           df == data[metric]
       IN /\ ~iloc_raises(df, 2)
          /\ msg' = [metric |-> metric, current |-> df[Len(df)], previous |-> df[Len(df) - 1]]
    /\ pc' = "render"
    /\ UNCHANGED <<attempt, data, idx, is_alert, calls, evaluated, err>>
    /\ UNCHANGED est_vars

\* df[metric].iloc[-2] of a frame of one row
ComposeRaises ==
    /\ pc = "compose"
    /\ iloc_raises(data[metrics_list[idx]], 2)
    /\ Raise("IndexError")
    /\ UNCHANGED <<attempt, data, idx, is_alert, msg, calls, evaluated>>
    /\ UNCHANGED est_vars

\* the chart is drawn and saved into plot_object
Render ==
    /\ pc = "render"
    /\ pc' = "sendMessage"
    /\ UNCHANGED <<attempt, data, idx, is_alert, msg, calls, evaluated, err>>
    /\ UNCHANGED est_vars

RenderRaises ==
    /\ pc = "render"
    /\ Raise("RenderFailure")
    /\ UNCHANGED <<attempt, data, idx, is_alert, msg, calls, evaluated>>
    /\ UNCHANGED est_vars

\* bot.sendMessage(chat_id=chat_id, text=msg)
SendMessage ==
    /\ pc = "sendMessage"
    /\ calls' = Append(calls, [op |-> "sendMessage", metric |-> msg.metric, ok |-> TRUE])
    /\ pc' = "sendPhoto"
    /\ UNCHANGED <<attempt, data, idx, is_alert, msg, evaluated, err>>
    /\ UNCHANGED est_vars

SendMessageRaises ==
    /\ pc = "sendMessage"
    /\ calls' = Append(calls, [op |-> "sendMessage", metric |-> msg.metric, ok |-> FALSE])
    /\ Raise("NotifyFailure")
    /\ UNCHANGED <<attempt, data, idx, is_alert, msg, evaluated>>
    /\ UNCHANGED est_vars

\* bot.sendPhoto(chat_id=chat_id, photo=plot_object), then the next metric
SendPhoto ==
    /\ pc = "sendPhoto"
    /\ calls' = Append(calls, [op |-> "sendPhoto", metric |-> metrics_list[idx], ok |-> TRUE])
    /\ pc' = "loop"
    /\ idx' = idx + 1
    /\ UNCHANGED <<attempt, data, is_alert, msg, evaluated, err>>
    /\ UNCHANGED est_vars

SendPhotoRaises ==
    /\ pc = "sendPhoto"
    /\ calls' = Append(calls, [op |-> "sendPhoto", metric |-> metrics_list[idx], ok |-> FALSE])
    /\ Raise("NotifyFailure")
    /\ UNCHANGED <<attempt, data, idx, is_alert, msg, evaluated>>
    /\ UNCHANGED est_vars

\* a try starts from nothing: the task keeps no state between tries
NewTry(k) ==
    /\ attempt' = k
    /\ pc' = "fetch"
    /\ data' = NoFrame /\ idx' = 0 /\ is_alert' = 0 /\ msg' = NoMsg
    /\ calls' = <<>> /\ evaluated' = <<>> /\ err' = "none"
    /\ UNCHANGED est_vars

\* 'retries': 2: a failed try is run again, at most twice
Retry ==
    /\ pc = "failed" /\ attempt <= retries
    /\ NewTry(attempt + 1)

\* schedule_interval: the next run of the DAG, once this one has ended
NextRun ==
    /\ pc = "success" \/ (pc = "failed" /\ attempt > retries)
    /\ NewTry(1)

Next ==
    \/ Fetch \/ FetchRaises
    \/ Evaluate \/ EvaluateRaises \/ LoopEnd
    \/ Compose \/ ComposeRaises
    \/ Render \/ RenderRaises
    \/ SendMessage \/ SendMessageRaises
    \/ SendPhoto \/ SendPhotoRaises
    \/ Retry \/ NextRun

Spec == Init /\ [][Next]_vars

(***************************************************************************)
(* Properties of one estimator call (checked under SpecEst).               *)
(***************************************************************************)
Returned(st) == est_pc = "returned" /\ strategy = st
LastOf(s) == s[Len(s)]
ReplaceLast(s, v) == [s EXCEPT ![Len(s)] = v]

\* C1: for both estimators, when low[last] and up[last] are defined, is_alert is 1
\* exactly when the last value is strictly below low[last] or strictly above
\* up[last]; a last value equal to a bound does not alert.
C1_StrictVerdict ==
    (est_pc = "returned" /\ ~IsNaN(low[Len(series)]) /\ ~IsNaN(up[Len(series)])) =>
        LET v == LastOf(series)
            lo == low[Len(series)]
            hi == up[Len(series)]
        IN est_alert = IF v * lo.den < lo.num \/ v * hi.den > hi.num THEN 1 ELSE 0

\* a last value that sits exactly on an upper bound above the lower bound: no alert
C1_OnTheBound ==
    /\ Returned("adaptive")
    /\ ~IsNaN(low[Len(series)]) /\ ~IsNaN(up[Len(series)])
    /\ LastOf(series) * up[Len(series)].den = up[Len(series)].num
    /\ low[Len(series)].num * up[Len(series)].den < up[Len(series)].num * low[Len(series)].den
    /\ est_alert = 0

\* C6: the envelope of check_anomaly has low and up defined at the same positions,
\* and low[i] <= up[i] at each of them, for every series and positive spread.
C6_LowBelowUp ==
    Returned("adaptive") =>
        \A i \in 1..Len(series) :
            /\ IsNaN(low[i]) <=> IsNaN(up[i])
            /\ ~IsNaN(low[i]) => low[i].num * up[i].den <= up[i].num * low[i].den

\* the first defined position of a window of 3 or more: its smoothing window holds
\* undefined raw bounds, and low is strictly below up there
C6_FirstDefined ==
    /\ Returned("adaptive")
    /\ n_arg >= 3 /\ Len(series) > n_arg + 1
    /\ IsNaN(low[n_arg - 1])
    /\ ~IsNaN(low[n_arg + 1]) /\ ~IsNaN(up[n_arg + 1])
    /\ low[n_arg + 1].num * up[n_arg + 1].den < up[n_arg + 1].num * low[n_arg + 1].den

\* C7: the verdict of check_anomaly_ctr depends on the last value alone: alert iff
\* it is below 0.19 or above 0.23 (0.21 does not alert, 0.25 does), the same for
\* every other series with that last value; every position carries low 0.19, up 0.23.
C7_FixedIgnoresHistory ==
    Returned("fixed") =>
        /\ est_alert = IF LastOf(series) < 19 \/ LastOf(series) > 23 THEN 1 ELSE 0
        /\ LastOf(series) = 21 => est_alert = 0
        /\ LastOf(series) = 25 => est_alert = 1
        /\ \A i \in 1..Len(series) :
              low[i] = [num |-> 19, den |-> 1] /\ up[i] = [num |-> 23, den |-> 1]
        /\ \A t \in SeqsUpTo(CtrVals, MaxCtrLen) :
              (t # <<>> /\ LastOf(t) = LastOf(series)) =>
                  check_anomaly_ctr(t).is_alert = est_alert

\* a series that ends in 0.25 after values inside the band: alert
C7_EndsAbove ==
    /\ Returned("fixed")
    /\ Len(series) = MaxCtrLen
    /\ series[1] = 21 /\ LastOf(series) = 25
    /\ est_alert = 1

\* The reference algorithm of the specification, 4.1, in quarters.
RefRank(w, j) ==
    CHOOSE v \in {w[i] : i \in 1..Len(w)} :
        /\ Cardinality({i \in 1..Len(w) : w[i] < v}) <= j
        /\ j < Cardinality({i \in 1..Len(w) : w[i] <= v})
RefPercentile4(w, k) ==
    LET pos4 == k * (Len(w) - 1)
        below == RefRank(w, pos4 \div 4)
        above == IF pos4 % 4 = 0 THEN below ELSE RefRank(w, pos4 \div 4 + 1)
    IN 4 * below + (pos4 % 4) * (above - below)
RefUpRaw4(s, a, n, i) ==
    LET w == SubSeq(s, i - n, i - 1)
    IN RefPercentile4(w, 3) + a * (RefPercentile4(w, 3) - RefPercentile4(w, 1))
RefLowRaw4(s, a, n, i) ==
    LET w == SubSeq(s, i - n, i - 1)
    IN RefPercentile4(w, 1) - a * (RefPercentile4(w, 3) - RefPercentile4(w, 1))
RECURSIVE RefSum(_, _, _, _, _)
RefSum(Raw(_, _, _, _), s, a, n, W) ==
    IF W = {} THEN 0
    ELSE LET i == CHOOSE i \in W : TRUE
         IN Raw(s, a, n, i) + RefSum(Raw, s, a, n, W \ {i})
RefVerdict(s, a, n) ==
    LET last == Len(s)
        W == {i \in (last - n \div 2)..(last + n \div 2) : i > n /\ i <= last}
        c == Cardinality(W)
    IN IF c >= 1 /\ (\/ 4 * c * s[last] < RefSum(RefLowRaw4, s, a, n, W)
                     \/ 4 * c * s[last] > RefSum(RefUpRaw4, s, a, n, W))
       THEN 1 ELSE 0

\* C8: the verdict of check_anomaly is the verdict of the reference algorithm
\* (quartiles of the n values before each position, raw bounds q75 + a*iqr and
\* q25 - a*iqr, centered mean of the defined raw bounds, strict comparison at the
\* last position); [10,12,11,13,90,91] with window 5 and spread 3 is flagged.
C8_MatchesReference ==
    Returned("adaptive") =>
        /\ est_alert = RefVerdict(series, a_arg, n_arg)
        /\ (series = Scenario /\ a_arg = 3 /\ n_arg = 5) => est_alert = 1

\* the scenario of the specification has been judged
C8_ScenarioFlagged ==
    /\ Returned("adaptive")
    /\ series = <<10, 12, 11, 13, 90, 91>> /\ a_arg = 3 /\ n_arg = 5
    /\ est_alert = 1
    /\ up[6] = [num |-> 76, den |-> 4]

\* C9: low[last] and up[last] of check_anomaly do not depend on the last value:
\* the same series with another last value gets the same two bounds.
C9_LastValueNotInItsBound ==
    Returned("adaptive") =>
        \A v \in AdaptiveVals \cup {90} :
            LET r == check_anomaly(ReplaceLast(series, v), a_arg, n_arg)
            IN /\ r.low[Len(series)] = low[Len(series)]
               /\ r.up[Len(series)] = up[Len(series)]

\* a judged series with defined bounds whose verdict another last value changes
C9_OtherLastOtherVerdict ==
    /\ Returned("adaptive")
    /\ ~IsNaN(low[Len(series)]) /\ ~IsNaN(up[Len(series)])
    /\ Len(series) >= n_arg + 2
    /\ \E v \in AdaptiveVals :
          check_anomaly(ReplaceLast(series, v), a_arg, n_arg).is_alert # est_alert

(***************************************************************************)
(* Properties of the task (checked under Spec).                            *)
(***************************************************************************)
Rows == Len(data[metrics_list[1]])
Ended == pc \in {"success", "failed"}
CallsFor(metric) == {k \in 1..Len(calls) : calls[k].metric = metric}

\* C2: a failure of the chart or of a send for one metric stays with that metric:
\* every later metric of the list is still evaluated in that run.
C2_FailureIsolated ==
    (Ended /\ err \in {"RenderFailure", "NotifyFailure"}) =>
        \A k \in (idx + 1)..Len(metrics_list) :
            \E j \in 1..Len(evaluated) : evaluated[j].metric = metrics_list[k]

\* the calls the specification expects of a run over a frame
RECURSIVE ExpectedCalls(_, _)
ExpectedCalls(frame, k) ==
    IF k > Len(metrics_list) THEN <<>>
    ELSE LET metric == metrics_list[k]
             flag == IF metric = "ctr" THEN check_anomaly_ctr(frame[metric]).is_alert
                     ELSE check_anomaly(frame[metric], 3, 5).is_alert
         IN (IF flag = 1
             THEN <<[op |-> "sendMessage", metric |-> metric, ok |-> TRUE],
                    [op |-> "sendPhoto", metric |-> metric, ok |-> TRUE]>>
             ELSE <<>>) \o ExpectedCalls(frame, k + 1)

\* C3: in a run where no collaborator fails, every metric is evaluated and the
\* calls on the bot are, in list order, one sendMessage then one sendPhoto for each
\* metric whose estimator alerts, and nothing else.
C3_CallsAreTheAlerts ==
    (Ended /\ Rows >= 1 /\ err \notin {"DataUnavailable", "RenderFailure", "NotifyFailure"}) =>
        /\ [k \in 1..Len(evaluated) |-> evaluated[k].metric] = metrics_list
        /\ calls = ExpectedCalls(data, 1)

\* C4: an adaptive metric whose series is not empty but has at most window_size
\* observations gets is_alert = 0 without an exception, no call is made for it, and
\* the loop goes on to the next metric.
C4_ShortSeriesNoVerdict ==
    (pc # "fetch" /\ Rows >= 1 /\ Rows <= 5) =>
        /\ \A k \in 1..Len(evaluated) :
              evaluated[k].metric # "ctr" =>
                  /\ evaluated[k].is_alert = 0
                  /\ CallsFor(evaluated[k].metric) = {}
                  /\ idx > k
        /\ (pc = "failed" /\ err = "IndexError") => metrics_list[idx] = "ctr"

\* a run over 5 rows has ended well: 'views' ended on a peak and was let through,
\* 'ctr' was notified, and the metrics after it were evaluated
C4_ShortRunEnded ==
    /\ pc = "success" /\ Rows = 5
    /\ data["views"][5] = 90
    /\ Len(evaluated) = Len(metrics_list)
    /\ Len(calls) = 2

\* C5: when the fetch raises or returns no rows, the run fails (it is never a
\* success) and no call is made on the bot.
C5_NoDataNoAlert ==
    (pc # "fetch" /\ Rows = 0) =>
        /\ calls = <<>>
        /\ evaluated = <<>>
        /\ pc \in {"loop", "failed"}
        /\ pc = "loop" => idx = 1
        /\ pc = "failed" => err \in {"DataUnavailable", "IndexError"}

\* the last try over a frame without rows has failed
C5_EmptyFrameFailed ==
    /\ pc = "failed" /\ err = "IndexError" /\ Rows = 0
    /\ attempt = retries + 1
    /\ calls = <<>>

\* C10: when get_alert composes a message, the series of the metric has at least
\* two observations, so that the previous observation exists.
C10_PreviousExists ==
    pc = "compose" => Len(data[metrics_list[idx]]) >= 2

====
